---- MODULE Spec2Model ----
(***************************************************************************)
(* Model of bot.py: the image enhancement size policy of                   *)
(* ImageEnhancer.enhance_image and the two Telegram message handlers       *)
(* handle_photo and handle_document that drive it.                         *)
(*                                                                         *)
(* Pixel data is not modelled: every filter of enhance_image keeps the     *)
(* size and mode of its argument, so an image is its (width, height, mode).*)
(* Python floats are IEEE-754 doubles; the two places where the code       *)
(* truncates a float product are modelled bit-exactly with integers.       *)
(***************************************************************************)
EXTENDS Integers, Sequences, FiniteSets, TLC

VARIABLES
    image,          \* the PIL image handed to enhance_image, or NoImage
    out,            \* what enhance_image produced for it, or NoResult
    handler,        \* which handler coroutine is running: "none", "photo", "document"
    pc,             \* position of the running handler
    document,       \* update.message.document of a document update
    processing_msg, \* the handler's local variable of that name
    placeholder,    \* the "Enhancing your image..." message as the chat shows it
    calls,          \* how often each external call was made for this request
    delivered,      \* messages that reached the requester, by kind
    raisedAt,       \* the step of the try block that raised, or "none"
    tgFailed,       \* Telegram API calls of this request that raised
    outcome         \* "running", "returned" or "propagated"

vars == <<image, out, handler, pc, document, processing_msg, placeholder,
          calls, delivered, raisedAt, tgFailed, outcome>>

----------------------------------------------------------------------------
(* Bounds of the checked input space *)

MaxSmall == 8
Win == 2

\* sizes around which the size policy changes its behaviour: the example
\* sizes, the two scale thresholds, the first size whose doubling exceeds
\* the cap, sizes where the float product rounds below the exact quotient,
\* the cap itself and twice the cap
CriticalDims == {200, 300, 500, 1000, 1250, 2118, 2500, 5000}

RoundingDims == {277, 2770}

Dims == (1 .. MaxSmall) \cup RoundingDims
        \cup {c + d : c \in CriticalDims, d \in (0 - Win) .. Win}

Modes == {"RGB", "RGBA", "LA", "P", "L"}

Images == [w : Dims, h : Dims, mode : Modes]

NoImage == [w |-> 0, h |-> 0, mode |-> "none"]

----------------------------------------------------------------------------
(* Integer helpers *)

Max(a, b) == IF a >= b THEN a ELSE b

Abs(a) == IF a >= 0 THEN a ELSE 0 - a

RECURSIVE Pow2(_)
Pow2(n) == IF n <= 0 THEN 1 ELSE 2 * Pow2(n - 1)

\* floor(log2(k)) for k >= 1
RECURSIVE Log2Floor(_)
Log2Floor(k) == IF k < 2 THEN 0 ELSE 1 + Log2Floor(k \div 2)

\* (a * 2^e) mod b, without forming a * 2^e
RECURSIVE ShiftMod(_, _, _)
ShiftMod(a, b, e) == IF e = 0 THEN a % b ELSE (2 * ShiftMod(a, b, e - 1)) % b

\* least t with a * 2^t >= b
RECURSIVE NormShift(_, _, _)
NormShift(a, b, t) == IF a * Pow2(t) >= b THEN t ELSE NormShift(a, b, t + 1)

----------------------------------------------------------------------------
(* Python float arithmetic of lines 53-61 *)

\* int(n * scale) for scale in {3.0, 2.5, 2.0}, scale given in tenths.
\* n * scale is exact in a double (n < 2^50), int() truncates toward zero.
IntTimesScale(n, scale10) == (n * scale10) \div 10

\* The rounding error of the double a / b (a < b), as a signed numerator d:
\* float(a / b) = a/b + d / (b * 2^e) with e = 52 + NormShift(a, b, 0).
\* int / int is correctly rounded, ties to even.
DivError(a, b) ==
    LET e  == 52 + NormShift(a, b, 0)
        R  == ShiftMod(a, b, e)
        Rp == ShiftMod(a, b, e - 1)
        odd == ((2 * Rp) \div b) % 2 = 1
    IN  IF 2 * R < b THEN 0 - R
        ELSE IF 2 * R > b THEN b - R
        ELSE IF odd THEN b - R ELSE 0 - R

\* int(n * (a / b)) as Python computes it with doubles, for 1 <= a < b.
\* When n*a/b is not an integer it lies at least 1/b from the next integer,
\* far more than the rounding error, and int() is the exact floor.  When
\* n*a/b is an integer k, the product rounds to k or to the double just
\* below k, and int() gives k or k - 1.
IntTimesRatio(n, a, b) ==
    LET k == (n * a) \div b
        d == DivError(a, b)
        t == NormShift(a, b, 0)
        j == Log2Floor(k)
        half == b * Pow2(t + j - 1)
        staysK == IF k = Pow2(j) THEN 2 * n * (0 - d) <= half
                                 ELSE n * (0 - d) <= half
    IN  IF (n * a) % b # 0 THEN k
        ELSE IF d >= 0 THEN k
        ELSE IF staysK THEN k ELSE k - 1

----------------------------------------------------------------------------
(* ImageEnhancer.enhance_image *)

max_size == 2500

\* lines 33-41: every mode ends as three-channel RGB of the same size
ConvertMode(mode) ==
    IF mode \in {"RGBA", "LA", "P"} THEN "RGB"
    ELSE IF mode # "RGB" THEN "RGB"
    ELSE mode

\* the variant of the scale policy that reads the width instead of max()
SelectScaleWidthOnly(original_size) ==
    LET max_dim == original_size[1]
    IN  IF max_dim < 500 THEN 30 ELSE IF max_dim < 1000 THEN 25 ELSE 20

\* the scale policy of the sibling variant: 3.5 below 400, 2.5 below 800
SelectScaleVariant(original_size) ==
    LET max_dim == Max(original_size[1], original_size[2])
    IN  IF max_dim < 400 THEN 35 ELSE IF max_dim < 800 THEN 25 ELSE 20

\* lines 43-50: the scale factor in tenths (3.0, 2.5, 2.0)
SelectScale(original_size) ==
    LET max_dim == Max(original_size[1], original_size[2])
    IN  IF max_dim < 500 THEN 30 ELSE IF max_dim < 1000 THEN 25 ELSE 20

\* lines 52-54
ScaledSize(original_size, scale10) ==
    <<IntTimesScale(original_size[1], scale10),
      IntTimesScale(original_size[2], scale10)>>

\* a cap that tests the width only
CapSizeWidthOnly(size) ==
    IF size[1] > max_size
    THEN <<IntTimesRatio(size[1], max_size, Max(size[1], size[2])),
           IntTimesRatio(size[2], max_size, Max(size[1], size[2]))>>
    ELSE size

\* a cap that clamps each dimension on its own
CapSizeClamp(size) ==
    <<IF size[1] > max_size THEN max_size ELSE size[1],
      IF size[2] > max_size THEN max_size ELSE size[2]>>

\* a cap that applies the ratio a second time to the size it already capped
CapSizeTwice(size) ==
    IF Max(size[1], size[2]) > max_size
    THEN LET once == <<IntTimesRatio(size[1], max_size, Max(size[1], size[2])),
                       IntTimesRatio(size[2], max_size, Max(size[1], size[2]))>>
         IN  <<IntTimesRatio(once[1], max_size, Max(size[1], size[2])),
               IntTimesRatio(once[2], max_size, Max(size[1], size[2]))>>
    ELSE size

\* lines 56-61: ratio = max_size / max(new_width, new_height)
CapSize(size) ==
    IF Max(size[1], size[2]) > max_size
    THEN <<IntTimesRatio(size[1], max_size, Max(size[1], size[2])),
           IntTimesRatio(size[2], max_size, Max(size[1], size[2]))>>
    ELSE size

\* line 66: Image.resize raises ValueError unless both sides are positive
ResizeRaises(new_size) == new_size[1] < 1 \/ new_size[2] < 1

\* lines 103-104: f"{w}x{h}" with the multiplication sign
FormatSize(size) == ToString(size[1]) \o "×" \o ToString(size[2])

NoResult == [raised |-> FALSE, done |-> FALSE]

\* lines 29-112.  memory_error: whether some library call runs out of memory.
enhance_image(img, memory_error) ==
    LET original_size == <<img.w, img.h>>
        mode      == ConvertMode(img.mode)
        scale     == SelectScale(original_size)
        pre_cap   == ScaledSize(original_size, scale)
        new_size  == CapSize(pre_cap)
    IN  IF memory_error \/ ResizeRaises(new_size)
        THEN [done |-> TRUE, raised |-> TRUE, scale |-> scale,
              pre_cap |-> pre_cap, new_size |-> new_size]
        ELSE [done |-> TRUE, raised |-> FALSE, scale |-> scale,
              pre_cap |-> pre_cap, new_size |-> new_size,
              size |-> new_size, mode |-> mode,
              stats |-> [original_size |-> FormatSize(original_size),
                         enhanced_size |-> FormatSize(new_size),
                         scale_factor  |-> scale]]

----------------------------------------------------------------------------
(* The enhancement alone: every image of the input space is enhanced once *)

Idle ==
    /\ handler = "none"
    /\ pc = "idle"
    /\ document = [mime_type |-> <<"None">>, has_size |-> FALSE, file_size |-> 0]
    /\ processing_msg = "unbound"
    /\ placeholder = "absent"
    /\ calls = [placeholder |-> 0, warning |-> 0, get_file |-> 0, download |-> 0,
                open |-> 0, enhance |-> 0, save |-> 0, delete |-> 0,
                reply_image |-> 0, edit_text |-> 0, reply_failure |-> 0]
    /\ delivered = [warning |-> 0, failure |-> 0, image |-> 0]
    /\ raisedAt = "none"
    /\ tgFailed = {}
    /\ outcome = "idle"

InitEnhance ==
    /\ image \in Images
    /\ out = NoResult
    /\ Idle

Enhance ==
    /\ handler = "none"
    /\ image # NoImage
    /\ ~out.done
    /\ \E memory_error \in BOOLEAN : out' = enhance_image(image, memory_error)
    /\ UNCHANGED <<image, handler, pc, document, processing_msg, placeholder,
                   calls, delivered, raisedAt, tgFailed, outcome>>

NextEnhance == Enhance

SpecEnhance == InitEnhance /\ [][NextEnhance]_vars

----------------------------------------------------------------------------
(* The updates the handlers receive *)

\* a str as the sequence of its characters; None as the one-element <<"None">>
NoneMime == <<"None">>
ImagePrefix == <<"i", "m", "a", "g", "e", "/">>

MimeTypes == {NoneMime,
              <<>>,
              ImagePrefix \o <<"p", "n", "g">>,
              ImagePrefix,
              <<"i", "m", "a", "g", "e">>,
              <<"t", "e", "x", "t", "/", "x">>}

\* str.startswith
StartsWith(str, prefix) ==
    /\ Len(str) >= Len(prefix)
    /\ SubSeq(str, 1, Len(prefix)) = prefix

\* line 250: document.mime_type and document.mime_type.startswith('image/')
\* (None and the empty string are falsy)
IsImageMime(mime_type) ==
    /\ mime_type # NoneMime
    /\ mime_type # <<>>
    /\ StartsWith(mime_type, ImagePrefix)

\* a size test that also turns away a file of exactly the limit
DocumentTooLargeInclusive(file_size) == file_size >= 3 * 1024 * 1024

\* line 257
DocumentTooLarge(file_size) == file_size > 3 * 1024 * 1024

\* declared sizes: tiny, and around the limit of line 257
FileSizes == {1, 3 * 1024 * 1024 - 1, 3 * 1024 * 1024, 3 * 1024 * 1024 + 1}

\* Document.file_size is optional in the Bot API: has_size = FALSE is None
Documents == [mime_type : MimeTypes, has_size : {TRUE}, file_size : FileSizes]
             \cup [mime_type : MimeTypes, has_size : {FALSE}, file_size : {0}]

\* what Image.open can return in a handler run
HandlerImages == {[w |-> 300, h |-> 200, mode |-> "RGB"],
                  [w |-> 2000, h |-> 1000, mode |-> "RGBA"],
                  [w |-> 2501, h |-> 1, mode |-> "RGB"]}

Init ==
    /\ image = NoImage
    /\ out = NoResult
    /\ Idle

Called(c) == [calls EXCEPT ![c] = @ + 1]

Deliver(kind) == [delivered EXCEPT ![kind] = @ + 1]

\* an exception raised at `step` inside the try block reaches its except clause
Raise(step) ==
    /\ pc' = "except"
    /\ raisedAt' = step

\* a Telegram API call raised inside the try block
TelegramRaise(step) ==
    /\ Raise(step)
    /\ tgFailed' = tgFailed \cup {step}

\* an exception raised inside the except clause leaves the handler
Propagate(step) ==
    /\ pc' = "done"
    /\ outcome' = "propagated"
    /\ tgFailed' = tgFailed \cup {step}

Return ==
    /\ pc' = "done"
    /\ outcome' = "returned"

----------------------------------------------------------------------------
(* handle_photo, one action per awaited call or library call *)

\* line 146
PhotoBegin ==
    /\ handler = "none" /\ outcome = "idle"
    /\ handler' = "photo"
    /\ outcome' = "running"
    /\ processing_msg' = "None"
    /\ pc' = "placeholder"
    /\ UNCHANGED <<image, out, document, placeholder, calls, delivered,
                   raisedAt, tgFailed>>

\* lines 149-152
PhotoPlaceholder ==
    /\ handler = "photo" /\ pc = "placeholder"
    /\ calls' = Called("placeholder")
    /\ \E ok \in BOOLEAN :
         IF ok
         THEN /\ processing_msg' = "msg"
              /\ placeholder' = "waiting"
              /\ pc' = "get_file"
              /\ UNCHANGED <<raisedAt, tgFailed>>
         ELSE /\ TelegramRaise("placeholder")
              /\ UNCHANGED <<processing_msg, placeholder>>
    /\ UNCHANGED <<image, out, handler, document, delivered, outcome>>

\* lines 155-156
PhotoGetFile ==
    /\ handler = "photo" /\ pc = "get_file"
    /\ calls' = Called("get_file")
    /\ \E ok \in BOOLEAN :
         IF ok THEN pc' = "download" /\ UNCHANGED <<raisedAt, tgFailed>>
               ELSE TelegramRaise("get_file")
    /\ UNCHANGED <<image, out, handler, document, processing_msg, placeholder,
                   delivered, outcome>>

\* lines 159-160
PhotoDownload ==
    /\ handler = "photo" /\ pc = "download"
    /\ calls' = Called("download")
    /\ \E ok \in BOOLEAN :
         IF ok THEN pc' = "open" /\ UNCHANGED <<raisedAt, tgFailed>>
               ELSE TelegramRaise("download")
    /\ UNCHANGED <<image, out, handler, document, processing_msg, placeholder,
                   delivered, outcome>>

\* lines 163-170: Image.open decodes the bytes or raises
PhotoOpen ==
    /\ handler = "photo" /\ pc = "open"
    /\ calls' = Called("open")
    /\ \/ /\ image' \in HandlerImages
          /\ pc' = "enhance"
          /\ UNCHANGED raisedAt
       \/ /\ Raise("open")
          /\ UNCHANGED image
    /\ UNCHANGED <<out, handler, document, processing_msg, placeholder,
                   delivered, tgFailed, outcome>>

\* lines 173-180
PhotoEnhance ==
    /\ handler = "photo" /\ pc = "enhance"
    /\ calls' = Called("enhance")
    /\ \E memory_error \in BOOLEAN : out' = enhance_image(image, memory_error)
    /\ IF out'.raised THEN Raise("enhance")
                      ELSE pc' = "save" /\ UNCHANGED raisedAt
    /\ UNCHANGED <<image, handler, document, processing_msg, placeholder,
                   delivered, tgFailed, outcome>>

\* lines 183-192: the JPEG encode
PhotoSave ==
    /\ handler = "photo" /\ pc = "save"
    /\ calls' = Called("save")
    /\ \E ok \in BOOLEAN :
         IF ok THEN pc' = "delete" /\ UNCHANGED raisedAt
               ELSE Raise("save")
    /\ UNCHANGED <<image, out, handler, document, processing_msg, placeholder,
                   delivered, tgFailed, outcome>>

\* lines 195-196
PhotoDelete ==
    /\ handler = "photo" /\ pc = "delete"
    /\ IF processing_msg # "None"
       THEN /\ calls' = Called("delete")
            /\ \E ok \in BOOLEAN :
                 IF ok
                 THEN /\ placeholder' = "deleted"
                      /\ pc' = "reply"
                      /\ UNCHANGED <<raisedAt, tgFailed>>
                 ELSE /\ TelegramRaise("delete")
                      /\ UNCHANGED placeholder
       ELSE /\ pc' = "reply"
            /\ UNCHANGED <<calls, placeholder, raisedAt, tgFailed>>
    /\ UNCHANGED <<image, out, handler, document, processing_msg, delivered,
                   outcome>>

\* lines 199-219
PhotoReply ==
    /\ handler = "photo" /\ pc = "reply"
    /\ calls' = Called("reply_image")
    /\ \E ok \in BOOLEAN :
         IF ok
         THEN /\ delivered' = Deliver("image")
              /\ Return
              /\ UNCHANGED <<raisedAt, tgFailed>>
         ELSE /\ TelegramRaise("reply_image")
              /\ UNCHANGED <<delivered, outcome>>
    /\ UNCHANGED <<image, out, handler, document, processing_msg, placeholder>>

\* lines 221-242.  Editing a message that was deleted is refused by Telegram
\* (BadRequest: message to edit not found), so edit_text then always raises.
PhotoExcept ==
    /\ handler = "photo" /\ pc = "except"
    /\ IF processing_msg # "None"
       THEN /\ calls' = Called("edit_text")
            /\ \E ok \in BOOLEAN :
                 IF ok /\ placeholder # "deleted"
                 THEN /\ placeholder' = "edited"
                      /\ delivered' = Deliver("failure")
                      /\ Return
                      /\ UNCHANGED tgFailed
                 ELSE /\ Propagate("edit_text")
                      /\ UNCHANGED <<placeholder, delivered>>
       ELSE /\ calls' = Called("reply_failure")
            /\ \E ok \in BOOLEAN :
                 IF ok
                 THEN /\ delivered' = Deliver("failure")
                      /\ Return
                      /\ UNCHANGED tgFailed
                 ELSE /\ Propagate("reply_failure")
                      /\ UNCHANGED delivered
            /\ UNCHANGED placeholder
    /\ UNCHANGED <<image, out, handler, document, processing_msg, raisedAt>>

----------------------------------------------------------------------------
(* handle_document *)

\* lines 246-247
DocBegin ==
    /\ handler = "none" /\ outcome = "idle"
    /\ handler' = "document"
    /\ outcome' = "running"
    /\ document' \in Documents
    /\ pc' = "check_mime"
    /\ UNCHANGED <<image, out, processing_msg, placeholder, calls, delivered,
                   raisedAt, tgFailed>>

\* the except clause of the sibling handler: the failure text is not sent
DocExceptSilent ==
    /\ handler = "document" /\ pc = "except"
    /\ Return
    /\ UNCHANGED <<image, out, handler, document, processing_msg, placeholder,
                   calls, delivered, raisedAt, tgFailed>>

\* lines 318-325
DocExcept ==
    /\ handler = "document" /\ pc = "except"
    /\ calls' = Called("reply_failure")
    /\ \E ok \in BOOLEAN :
         IF ok
         THEN /\ delivered' = Deliver("failure")
              /\ Return
              /\ UNCHANGED tgFailed
         ELSE /\ Propagate("reply_failure")
              /\ UNCHANGED delivered
    /\ UNCHANGED <<image, out, handler, document, processing_msg, placeholder,
                   raisedAt>>

\* a warning reply followed by return (lines 251-254 and 258-262)
DocWarn ==
    /\ calls' = Called("warning")
    /\ \E ok \in BOOLEAN :
         IF ok
         THEN /\ delivered' = Deliver("warning")
              /\ Return
              /\ UNCHANGED <<raisedAt, tgFailed>>
         ELSE /\ TelegramRaise("warning")
              /\ UNCHANGED <<delivered, outcome>>

\* lines 249-254
DocCheckMime ==
    /\ handler = "document" /\ pc = "check_mime"
    /\ IF ~IsImageMime(document.mime_type)
       THEN DocWarn
       ELSE /\ pc' = "check_size"
            /\ UNCHANGED <<calls, delivered, raisedAt, tgFailed, outcome>>
    /\ UNCHANGED <<image, out, handler, document, processing_msg, placeholder>>

\* lines 256-262; None > int raises TypeError
DocCheckSize ==
    /\ handler = "document" /\ pc = "check_size"
    /\ IF ~document.has_size
       THEN /\ Raise("file_size")
            /\ UNCHANGED <<calls, delivered, tgFailed, outcome>>
       ELSE IF DocumentTooLarge(document.file_size)
       THEN DocWarn
       ELSE /\ pc' = "placeholder"
            /\ UNCHANGED <<calls, delivered, raisedAt, tgFailed, outcome>>
    /\ UNCHANGED <<image, out, handler, document, processing_msg, placeholder>>

\* lines 264-267
DocPlaceholder ==
    /\ handler = "document" /\ pc = "placeholder"
    /\ calls' = Called("placeholder")
    /\ \E ok \in BOOLEAN :
         IF ok
         THEN /\ processing_msg' = "msg"
              /\ placeholder' = "waiting"
              /\ pc' = "get_file"
              /\ UNCHANGED <<raisedAt, tgFailed>>
         ELSE /\ TelegramRaise("placeholder")
              /\ UNCHANGED <<processing_msg, placeholder>>
    /\ UNCHANGED <<image, out, handler, document, delivered, outcome>>

\* line 269
DocGetFile ==
    /\ handler = "document" /\ pc = "get_file"
    /\ calls' = Called("get_file")
    /\ \E ok \in BOOLEAN :
         IF ok THEN pc' = "download" /\ UNCHANGED <<raisedAt, tgFailed>>
               ELSE TelegramRaise("get_file")
    /\ UNCHANGED <<image, out, handler, document, processing_msg, placeholder,
                   delivered, outcome>>

\* lines 270-271
DocDownload ==
    /\ handler = "document" /\ pc = "download"
    /\ calls' = Called("download")
    /\ \E ok \in BOOLEAN :
         IF ok THEN pc' = "open" /\ UNCHANGED <<raisedAt, tgFailed>>
               ELSE TelegramRaise("download")
    /\ UNCHANGED <<image, out, handler, document, processing_msg, placeholder,
                   delivered, outcome>>

\* lines 273-276
DocOpen ==
    /\ handler = "document" /\ pc = "open"
    /\ calls' = Called("open")
    /\ \/ /\ image' \in HandlerImages
          /\ pc' = "enhance"
          /\ UNCHANGED raisedAt
       \/ /\ Raise("open")
          /\ UNCHANGED image
    /\ UNCHANGED <<out, handler, document, processing_msg, placeholder,
                   delivered, tgFailed, outcome>>

\* lines 278-282
DocEnhance ==
    /\ handler = "document" /\ pc = "enhance"
    /\ calls' = Called("enhance")
    /\ \E memory_error \in BOOLEAN : out' = enhance_image(image, memory_error)
    /\ IF out'.raised THEN Raise("enhance")
                      ELSE pc' = "save" /\ UNCHANGED raisedAt
    /\ UNCHANGED <<image, handler, document, processing_msg, placeholder,
                   delivered, tgFailed, outcome>>

\* lines 284-293
DocSave ==
    /\ handler = "document" /\ pc = "save"
    /\ calls' = Called("save")
    /\ \E ok \in BOOLEAN :
         IF ok THEN pc' = "delete" /\ UNCHANGED raisedAt
               ELSE Raise("save")
    /\ UNCHANGED <<image, out, handler, document, processing_msg, placeholder,
                   delivered, tgFailed, outcome>>

\* line 295
DocDelete ==
    /\ handler = "document" /\ pc = "delete"
    /\ calls' = Called("delete")
    /\ \E ok \in BOOLEAN :
         IF ok
         THEN /\ placeholder' = "deleted"
              /\ pc' = "reply"
              /\ UNCHANGED <<raisedAt, tgFailed>>
         ELSE /\ TelegramRaise("delete")
              /\ UNCHANGED placeholder
    /\ UNCHANGED <<image, out, handler, document, processing_msg, delivered,
                   outcome>>

\* lines 297-316
DocReply ==
    /\ handler = "document" /\ pc = "reply"
    /\ calls' = Called("reply_image")
    /\ \E ok \in BOOLEAN :
         IF ok
         THEN /\ delivered' = Deliver("image")
              /\ Return
              /\ UNCHANGED <<raisedAt, tgFailed>>
         ELSE /\ TelegramRaise("reply_image")
              /\ UNCHANGED <<delivered, outcome>>
    /\ UNCHANGED <<image, out, handler, document, processing_msg, placeholder>>

----------------------------------------------------------------------------

Next ==
    \/ PhotoBegin \/ PhotoPlaceholder \/ PhotoGetFile \/ PhotoDownload
    \/ PhotoOpen \/ PhotoEnhance \/ PhotoSave \/ PhotoDelete \/ PhotoReply
    \/ PhotoExcept
    \/ DocBegin \/ DocCheckMime \/ DocCheckSize \/ DocPlaceholder
    \/ DocGetFile \/ DocDownload \/ DocOpen \/ DocEnhance \/ DocSave
    \/ DocDelete \/ DocReply \/ DocExcept

Spec == Init /\ [][Next]_vars

----------------------------------------------------------------------------
(* Properties of enhance_image, checked under SpecEnhance *)

\* C1: the size enhance_image computes for the output never has a side
\* longer than 2500 pixels, also when the scaled size exceeded 2500.
C1_OutputWithinCap ==
    out.done => Max(out.new_size[1], out.new_size[2]) <= 2500

\* the scaled size exceeded the cap and the downscale branch brought it back
C1_Witness ==
    /\ out.done
    /\ Max(out.pre_cap[1], out.pre_cap[2]) > 2500
    /\ out.pre_cap[2] > out.pre_cap[1]
    /\ Max(out.new_size[1], out.new_size[2]) = 2500

\* C2: the scale factor depends on max(width, height) only: 3.0 below 500,
\* 2.0 from 1000 on, 2.5 in between; every other image with the same largest
\* side, whichever side it is and whatever the mode, gets the same factor.
C2_ScaleFromMaxDim ==
    out.done =>
        LET m == Max(image.w, image.h)
        IN  /\ (m < 500 => out.scale = 30)
            /\ (m >= 1000 => out.scale = 20)
            /\ (m >= 500 /\ m < 1000 => out.scale = 25)
            /\ \A o \in Dims :
                 o <= m => /\ SelectScale(<<m, o>>) = out.scale
                           /\ SelectScale(<<o, m>>) = out.scale

\* a tall palette image whose height alone puts it in the middle band
C2_Witness ==
    /\ out.done
    /\ image = [w |-> 3, h |-> 999, mode |-> "P"]
    /\ out.scale = 25

\* C3: the output keeps the aspect ratio within one pixel per side: with
\* M the largest input side and Wmax the largest output side,
\* |W*M - w*Wmax| <= M and |H*M - h*Wmax| <= M, with and without the cap.
C3_AspectRatioKept ==
    out.done =>
        LET M    == Max(image.w, image.h)
            Wmax == Max(out.new_size[1], out.new_size[2])
        IN  /\ Abs(out.new_size[1] * M - image.w * Wmax) <= M
            /\ Abs(out.new_size[2] * M - image.h * Wmax) <= M

\* the cap engaged and the float product for the height fell below the
\* exact quotient 554 * 2500 / 5540 = 250
C3_Witness ==
    /\ out.done
    /\ image.w = 2770 /\ image.h = 277
    /\ out.pre_cap = <<5540, 554>>
    /\ out.new_size = <<2500, 249>>

\* C4 as stated: a 300x200 RGB input gets scale 3.5, pre-cap and final size
\* 1050x700, and stats report scale_factor 3.5.
C4_Original ==
    (out.done /\ ~out.raised /\ image = [w |-> 300, h |-> 200, mode |-> "RGB"])
        => /\ out.scale = 35
           /\ out.pre_cap = <<1050, 700>>
           /\ out.size = <<1050, 700>>
           /\ out.stats.scale_factor = 35

\* C4 amended: a 300x200 RGB input gets scale 3.0, the pre-cap size is
\* 900x600, the cap does not engage, the output is exactly 900x600 and the
\* stats report scale_factor 3.0 and the sizes 300x200 and 900x600.
C4_Example300x200 ==
    (out.done /\ ~out.raised /\ image = [w |-> 300, h |-> 200, mode |-> "RGB"])
        => /\ out.scale = 30
           /\ out.pre_cap = <<900, 600>>
           /\ Max(out.pre_cap[1], out.pre_cap[2]) <= 2500
           /\ out.size = <<900, 600>>
           /\ out.mode = "RGB"
           /\ out.stats = [original_size |-> "300×200",
                           enhanced_size |-> "900×600",
                           scale_factor  |-> 30]

C4_Witness ==
    /\ out.done /\ ~out.raised
    /\ image = [w |-> 300, h |-> 200, mode |-> "RGB"]
    /\ out.size[1] * 2 = out.size[2] * 3

\* C9: the size passed to resize never has a zero side.
C9_NoZeroDimension ==
    out.done => out.new_size[1] >= 1 /\ out.new_size[2] >= 1

\* C10: an input whose largest side is at most 2500 is never made smaller in
\* either dimension, also when the cap engages; an output smaller than its
\* input has an input side above 2500.
C10_NotSmallerThanInput ==
    out.done =>
        /\ Max(image.w, image.h) <= 2500
             => out.new_size[1] >= image.w /\ out.new_size[2] >= image.h
        /\ (out.new_size[1] < image.w \/ out.new_size[2] < image.h)
             => Max(image.w, image.h) > 2500

\* the cap engaged on a square input and the float product gave 2499
C10_Witness ==
    /\ out.done
    /\ image.w = 2118 /\ image.h = 2118
    /\ out.pre_cap = <<4236, 4236>>
    /\ out.new_size = <<2499, 2499>>

----------------------------------------------------------------------------
(* Properties of the handlers, checked under Spec *)

Finished == outcome \in {"returned", "propagated"}

\* C5: a document that is not an image or is larger than 3 MiB gets one
\* warning and nothing else: no placeholder, no get_file, no download, no
\* decode, no enhancement.  A document of exactly 3 MiB is not turned away.
C5_RejectedBeforeFetch ==
    handler = "document" =>
        LET mt == document.mime_type
            isImage == /\ mt # <<"None">>
                       /\ Len(mt) >= 6
                       /\ SubSeq(mt, 1, 6) = <<"i", "m", "a", "g", "e", "/">>
            tooLarge == document.has_size /\ document.file_size > 3145728
        IN  /\ (~isImage \/ tooLarge) =>
                 /\ calls.placeholder = 0 /\ placeholder = "absent"
                 /\ calls.get_file = 0 /\ calls.download = 0
                 /\ calls.open = 0 /\ calls.enhance = 0
                 /\ Finished => calls.warning = 1
                 /\ (Finished /\ tgFailed = {}) =>
                      /\ outcome = "returned"
                      /\ delivered = [warning |-> 1, failure |-> 0, image |-> 0]
            /\ (isImage /\ document.has_size /\ document.file_size = 3145728) =>
                 /\ calls.warning = 0
                 /\ pc \notin {"check_mime", "check_size", "placeholder"}
                      => calls.placeholder = 1

\* an image document one byte over the limit was turned away with the warning
C5_Witness ==
    /\ handler = "document"
    /\ outcome = "returned"
    /\ document.has_size /\ document.file_size = 3145729
    /\ Len(document.mime_type) = 9
    /\ delivered.warning = 1

\* C6: whenever the placeholder was sent, it is deleted or edited by the
\* time the handler finishes, on the success path and on the decode,
\* enhancement, encode and reply failure paths.
C6_PlaceholderResolved ==
    (/\ Finished
     /\ processing_msg = "msg"
     /\ raisedAt \in {"none", "open", "enhance", "save", "reply_image"}
     /\ tgFailed \cap {"delete", "edit_text"} = {})
        => placeholder \in {"deleted", "edited"}

\* C7: when the decode, the enhancement or the JPEG encode raises, no image
\* reply is sent, the enhancement is not retried, control reaches the except
\* clause, and if every Telegram call succeeds the handler returns normally
\* with exactly one failure message delivered; only a failing Telegram call
\* of the except clause can leave the handler.
C7_PipelineFailureReported ==
    raisedAt \in {"open", "enhance", "save"} =>
        /\ calls.reply_image = 0 /\ delivered.image = 0
        /\ calls.enhance <= 1
        /\ pc \in {"except", "done"}
        /\ (Finished /\ tgFailed = {}) =>
             /\ outcome = "returned"
             /\ delivered.failure = 1
             /\ delivered.warning = 0
        /\ outcome = "propagated" =>
             tgFailed \cap {"edit_text", "reply_failure"} # {}

\* a document whose bytes did not decode ended with the failure message
C7_Witness ==
    /\ handler = "document"
    /\ raisedAt = "open"
    /\ outcome = "returned"
    /\ delivered.failure = 1

\* C8: in handle_photo, when reply_photo fails after the placeholder was
\* deleted, a failure message still reaches the requester and no exception
\* leaves the handler.
C8_ReplyFailureReported ==
    (/\ handler = "photo"
     /\ Finished
     /\ raisedAt = "reply_image"
     /\ placeholder = "deleted")
        => /\ delivered.failure >= 1
           /\ outcome = "returned"

====
